---- MODULE Spec2Model ----
(***************************************************************************)
(* One relay session of realtime-proxy (src/main.go): the goroutines       *)
(* started by handleClientWS (the handler's own read loop, the upstream    *)
(* receiver, WSWriter.loop and the client pingLoop), the context they      *)
(* share, the mutex that guards the client socket, the two lanes of the    *)
(* upstream writer and the two sockets.                                    *)
(***************************************************************************)
EXTENDS Integers, Sequences, FiniteSets, TLC

\* ---- bounds of the model ------------------------------------------------
MaxFrames == 5      \* binary frames the client sends in one session
MaxCmds == 1        \* text frames the client sends in one session
MaxUpEvents == 2    \* messages the upstream peer sends in one session
LiveCmds == 1       \* text frames in a run on which progress is checked
LiveEvents == 1     \* upstream messages in a run on which progress is checked
MaxIdleInputs == 3  \* frames the client sends to the idle-commit variant
MaxFrameBytes == 1  \* length of the longest binary frame sent to that variant

\* What the peers send in one session is one of three loads: audio with text
\* commands from the client alone, a short exchange in both directions, or
\* upstream events alone. raw is the value of the request's raw parameter.
Loads ==
    { [frames |-> MaxFrames, cmds |-> MaxCmds, events |-> 0, raw |-> 1],
      [frames |-> 1, cmds |-> MaxCmds, events |-> MaxUpEvents, raw |-> 0],
      [frames |-> 0, cmds |-> 0, events |-> MaxUpEvents, raw |-> 1] }

\* The loads of the runs on which progress is checked: audio alone, or one
\* text command and one upstream event.
LiveLoads ==
    { [frames |-> MaxFrames, cmds |-> 0, events |-> 0, raw |-> 1],
      [frames |-> 0, cmds |-> LiveCmds, events |-> LiveEvents, raw |-> 0] }

\* ---- program constants --------------------------------------------------
AudioCap == 4       \* make(chan []byte, 4)

\* ---- messages -----------------------------------------------------------
\* A message is [kind, id]; id is the position of the client frame it was
\* made from (0 for session.update and for pings), so ids give the order in
\* which the handler made the calls.
ControlKinds ==
    {"session.update", "input_audio_buffer.clear", "response.cancel", "response.create"}

AppendKind == "input_audio_buffer.append"

Commands == {"clear", "cancel", "force", "other"}

UpEventKinds ==
    {"error", "delta", "bad_delta", "non_json", "response.done", "speech_started", "other"}

NoMsg == [kind |-> "none", id |-> 0]

PingMsg == [kind |-> "ping", id |-> 0]

\* (variant: the cases of clear and cancel exchanged)
CmdEventSwapped(cmd) ==
    CASE cmd = "clear" -> "response.cancel"
      [] cmd = "cancel" -> "input_audio_buffer.clear"
      [] cmd = "force" -> "response.create"
      [] OTHER -> "none"

\* the text command -> upstream event mapping of the client read loop
CmdEvent(cmd) ==
    CASE cmd = "clear" -> "input_audio_buffer.clear"
      [] cmd = "cancel" -> "response.cancel"
      [] cmd = "force" -> "response.create"
      [] OTHER -> "none"

VARIABLES
    hpc,        \* handler (handleClientWS) position
    hmsg,       \* the message the handler is passing to SendControl/SendAudio
    load,       \* what the peers send in this session (one of Loads)
    nFrames,    \* binary frames read from the client so far
    nCmds,      \* text frames read from the client so far
    nEvents,    \* upstream messages read so far
    upRead,     \* the upstream messages read, in order
    cmdLog,     \* the text frames read from the client, in order
    frameLog,   \* the ids of the binary frames read from the client, in order
    wpc,        \* WSWriter.loop position
    whand,      \* the message WSWriter.loop is writing
    audioCh,    \* w.audioCh, the buffered audio lane
    rpc,        \* upstream receiver goroutine position
    revt,       \* the client frame the receiver is writing
    ppc,        \* pingLoop position
    mu,         \* clientWriteMu: "none" or the task holding it
    ctxDone,    \* the context has been cancelled
    clientPeer, \* the client end of the client socket: "open", "dead" or "gone"
    upDialed,   \* dialOpenAIRealtime returned a connection
    clCloses,   \* number of clientConn.Close() calls
    upCloses,   \* number of openaiConn.Close() calls
    clWriters,  \* tasks inside clientConn.WriteMessage
    upWriters,  \* tasks inside openaiConn.WriteMessage
    upWire,     \* log of the data WriteMessage calls on the upstream socket
    clWire,     \* log of the data WriteMessage calls on the client socket
    ctrlCalls,  \* messages passed to SendControl, in call order
    evicted,    \* audio messages SendAudio removed from the lane
    fullCalls,  \* SendAudio calls that found the lane full
    upWriteFailed, \* the WriteMessage of WSWriter.loop returned an error
    pingFailed, \* the WriteMessage of pingLoop returned an error
    \* -- the idle-commit variant of the handler (src/unnamed/part_002) --
    ihpc,       \* its read loop's position
    ihlen,      \* len(data) of the binary frame it is handling
    ihtmp,      \* the value it read for bytesSinceCommit += len(data)
    ipc,        \* the idle goroutine's position
    bytesSinceCommit, \* the counter the two goroutines share, unsynchronised
    idleTimer,  \* "stopped", "armed", or "fired" (a value waits in idleTimer.C)
    idleCtxDone, \* the variant's context has been cancelled
    idleWire,   \* the events sendJSON has written upstream, in order
    nIdleIn     \* frames read from the client so far

vars ==
    <<hpc, hmsg, load, nFrames, nCmds, nEvents, upRead, cmdLog, frameLog, wpc, whand, audioCh, rpc, revt, ppc, mu,
      ctxDone, clientPeer,
      upDialed, clCloses, upCloses, clWriters, upWriters, upWire, clWire, ctrlCalls,
      evicted, fullCalls, upWriteFailed, pingFailed,
      ihpc, ihlen, ihtmp, ipc, bytesSinceCommit, idleTimer, idleCtxDone, idleWire, nIdleIn>>

idleVars ==
    <<ihpc, ihlen, ihtmp, ipc, bytesSinceCommit, idleTimer, idleCtxDone, idleWire, nIdleIn>>

hVars == <<hpc, hmsg>>
envVars == <<load, nFrames, nCmds, nEvents, upRead, cmdLog, frameLog, idleVars>>
wVars == <<wpc, whand, upWriters, upWriteFailed>>
rVars == <<rpc, revt>>
pVars == <<ppc, pingFailed>>
muVars == <<mu, clWriters>>
sockVars == <<clientPeer, upDialed, clCloses, upCloses>>
histVars == <<upWire, clWire, ctrlCalls, evicted, fullCalls>>

\* the idle-commit variant after `go func()` of its idle goroutine: the counter
\* is 0 and the timer was created and stopped
IdleStarted ==
    /\ ihpc = "read"
    /\ ihlen = 0
    /\ ihtmp = 0
    /\ ipc = "select"
    /\ bytesSinceCommit = 0
    /\ idleTimer = "stopped"
    /\ idleCtxDone = FALSE
    /\ idleWire = <<>>
    /\ nIdleIn = 0

\* ---- state after the upgrade, the context creation and `go pingLoop` -----
Started ==
    /\ IdleStarted
    /\ hpc = "dial"
    /\ hmsg = NoMsg
    /\ nFrames = 0
    /\ nCmds = 0
    /\ nEvents = 0
    /\ upRead = <<>>
    /\ cmdLog = <<>>
    /\ frameLog = <<>>
    /\ wpc = "idle"
    /\ whand = NoMsg
    /\ audioCh = <<>>
    /\ rpc = "idle"
    /\ revt = NoMsg
    /\ ppc = "select"
    /\ mu = "none"
    /\ ctxDone = FALSE
    /\ clientPeer = "open"
    /\ upDialed = FALSE
    /\ clCloses = 0
    /\ upCloses = 0
    /\ clWriters = {}
    /\ upWriters = {}
    /\ upWire = <<>>
    /\ clWire = <<>>
    /\ ctrlCalls = <<>>
    /\ evicted = <<>>
    /\ fullCalls = 0
    /\ upWriteFailed = FALSE
    /\ pingFailed = FALSE

Init == load \in Loads /\ Started

LiveInit == load \in LiveLoads /\ Started

\* ---- the sockets and their peers --------------------------------------------
ClientConnOpen == clCloses = 0
UpConnOpen == upDialed /\ upCloses = 0

\* the number of the next client frame
NextId == nFrames + nCmds + 1

\* The client closes its socket, or the client link breaks.
ClientGone ==
    /\ clientPeer = "open"
    /\ clientPeer' = "gone"
    /\ UNCHANGED <<hVars, envVars, wVars, audioCh, rVars, pVars, muVars, ctxDone, upDialed,
                   clCloses, upCloses, histVars>>

\* The client stops answering: it sends no frame and no pong any more, and its
\* socket is not closed.
ClientDies ==
    /\ clientPeer = "open"
    /\ clientPeer' = "dead"
    /\ UNCHANGED <<hVars, envVars, wVars, audioCh, rVars, pVars, muVars, ctxDone, upDialed,
                   clCloses, upCloses, histVars>>

\* ---- handleClientWS ---------------------------------------------------------
\* (variant: the handler enters its read loop without sending session.update)
HandlerDialNoUpdate ==
    /\ hpc = "dial"
    /\ upDialed' = TRUE
    /\ wpc' = "select"
    /\ rpc' = "read"
    /\ hpc' = "read"
    /\ UNCHANGED <<hmsg, envVars, whand, upWriters, upWriteFailed, audioCh, revt, pVars,
                   muVars, ctxDone, clientPeer, clCloses, upCloses, histVars>>

\* dialOpenAIRealtime succeeds; NewWSWriter starts WSWriter.loop; the handler
\* calls SendControl(session.update).
HandlerDialOK ==
    /\ hpc = "dial"
    /\ upDialed' = TRUE
    /\ wpc' = "select"
    /\ hmsg' = [kind |-> "session.update", id |-> 0]
    /\ ctrlCalls' = Append(ctrlCalls, hmsg')
    /\ hpc' = "sendControl"
    /\ UNCHANGED <<envVars, whand, upWriters, upWriteFailed, audioCh, rVars, pVars, muVars,
                   ctxDone, clientPeer, clCloses, upCloses, upWire, clWire, evicted, fullCalls>>

\* dialOpenAIRealtime fails: the handler returns.
HandlerDialFail ==
    /\ hpc = "dial"
    /\ hpc' = "return"
    /\ UNCHANGED <<hmsg, envVars, wVars, audioCh, rVars, pVars, muVars, ctxDone, sockVars,
                   histVars>>

\* clientConn.ReadMessage returns an error: cancel() and return.
HandlerReadErr ==
    /\ hpc = "read"
    /\ clientPeer = "gone"
    /\ ctxDone' = TRUE
    /\ hpc' = "return"
    /\ UNCHANGED <<hmsg, envVars, wVars, audioCh, rVars, pVars, muVars, sockVars, histVars>>

\* clientConn.ReadMessage returns a binary frame: the handler calls SendAudio.
HandlerReadBinary ==
    /\ hpc = "read"
    /\ clientPeer = "open"
    /\ nFrames < load.frames
    /\ nFrames' = nFrames + 1
    /\ frameLog' = Append(frameLog, NextId)
    /\ hmsg' = [kind |-> AppendKind, id |-> NextId]
    /\ hpc' = "sendAudio"
    /\ UNCHANGED <<load, idleVars, nCmds, nEvents, upRead, cmdLog, wVars, audioCh, rVars, pVars,
                   muVars, ctxDone, sockVars, histVars>>

\* clientConn.ReadMessage returns a text frame: a known command calls
\* SendControl, any other text is logged.
HandlerReadText(cmd) ==
    /\ hpc = "read"
    /\ clientPeer = "open"
    /\ nCmds < load.cmds
    /\ nCmds' = nCmds + 1
    /\ cmdLog' = Append(cmdLog, cmd)
    /\ IF CmdEvent(cmd) = "none"
         THEN UNCHANGED <<hpc, hmsg, ctrlCalls>>
         ELSE /\ hmsg' = [kind |-> CmdEvent(cmd), id |-> NextId]
              /\ ctrlCalls' = Append(ctrlCalls, hmsg')
              /\ hpc' = "sendControl"
    /\ UNCHANGED <<load, idleVars, nFrames, nEvents, upRead, frameLog, wVars, audioCh, rVars, pVars, muVars,
                   ctxDone, sockVars, upWire, clWire, evicted, fullCalls>>

\* (variant: the handler returns without the deferred cancel())
HandlerReturnNoCancel ==
    /\ hpc = "return"
    /\ upCloses' = IF upDialed THEN upCloses + 1 ELSE upCloses
    /\ clCloses' = clCloses + 1
    /\ hpc' = "done"
    /\ UNCHANGED <<hmsg, envVars, wVars, audioCh, rVars, pVars, muVars, ctxDone, clientPeer,
                   upDialed, histVars>>

\* return: the deferred openaiConn.Close() (when the dial had succeeded),
\* cancel() and clientConn.Close()
HandlerReturn ==
    /\ hpc = "return"
    /\ upCloses' = IF upDialed THEN upCloses + 1 ELSE upCloses
    /\ ctxDone' = TRUE
    /\ clCloses' = clCloses + 1
    /\ hpc' = "done"
    /\ UNCHANGED <<hmsg, envVars, wVars, audioCh, rVars, pVars, muVars, clientPeer,
                   upDialed, histVars>>

\* ---- WSWriter.SendAudio ------------------------------------------------------
\* (variant: the lane counted as full one item late)
ChanFullLate(q) == Len(q) > AudioCap

ChanFull(q) == Len(q) >= AudioCap

\* select { case w.audioCh <- b: ... default: ... }
SendAudioTry ==
    /\ hpc = "sendAudio"
    /\ IF ChanFull(audioCh)
         THEN /\ hpc' = "evict"
              /\ fullCalls' = fullCalls + 1
              /\ UNCHANGED <<audioCh, hmsg>>
         ELSE /\ audioCh' = Append(audioCh, hmsg)
              /\ hmsg' = NoMsg
              /\ hpc' = "read"
              /\ UNCHANGED fullCalls
    /\ UNCHANGED <<envVars, wVars, rVars, pVars, muVars, ctxDone, sockVars,
                   upWire, clWire, ctrlCalls, evicted>>

\* (variant: the receive hands out the newest item)
ReceivedNewest(q) == q[Len(q)]

\* what <-w.audioCh takes from the lane, and what it leaves
Received(q) == Head(q)
AfterReceive(q) == Tail(q)

\* default: <-w.audioCh (blocks while the lane is empty)
SendAudioEvict ==
    /\ hpc = "evict"
    /\ audioCh # <<>>
    /\ evicted' = Append(evicted, Received(audioCh))
    /\ audioCh' = AfterReceive(audioCh)
    /\ hpc' = "insert"
    /\ UNCHANGED <<hmsg, envVars, wVars, rVars, pVars, muVars, ctxDone, sockVars,
                   upWire, clWire, ctrlCalls, fullCalls>>

\* default: w.audioCh <- b (blocks while the lane is full)
SendAudioInsert ==
    /\ hpc = "insert"
    /\ ~ChanFull(audioCh)
    /\ audioCh' = Append(audioCh, hmsg)
    /\ hmsg' = NoMsg
    /\ hpc' = "read"
    /\ UNCHANGED <<envVars, wVars, rVars, pVars, muVars, ctxDone, sockVars, histVars>>

\* ---- WSWriter.loop and WSWriter.SendControl ------------------------------------
\* case <-ctx.Done(): return
LoopCtxDone ==
    /\ wpc = "select"
    /\ ctxDone
    /\ wpc' = "done"
    /\ UNCHANGED <<hVars, envVars, whand, upWriters, upWriteFailed, audioCh, rVars, pVars,
                   muVars, ctxDone, sockVars, histVars>>

\* (variant: SendControl gives up instead of blocking, and the message is lost)
LoopDropControl ==
    /\ wpc = "select"
    /\ hpc = "sendControl"
    /\ hmsg' = NoMsg
    /\ hpc' = "read"
    /\ rpc' = IF rpc = "idle" THEN "read" ELSE rpc
    /\ UNCHANGED <<envVars, wVars, audioCh, revt, pVars, muVars, ctxDone, sockVars,
                   histVars>>

\* case msg := <-w.controlCh, met by the `w.controlCh <- b` of SendControl:
\* controlCh is unbuffered, so the send and the receive are one step. The
\* handler returns from SendControl; after the session.update it starts the
\* upstream receiver and enters its read loop.
LoopRecvControl ==
    /\ wpc = "select"
    /\ hpc = "sendControl"
    /\ whand' = hmsg
    /\ wpc' = "write"
    /\ upWriters' = upWriters \cup {"loop"}
    /\ hmsg' = NoMsg
    /\ hpc' = "read"
    /\ rpc' = IF rpc = "idle" THEN "read" ELSE rpc
    /\ UNCHANGED <<envVars, upWriteFailed, audioCh, revt, pVars, muVars, ctxDone, sockVars,
                   histVars>>

\* (variant: the audio case takes the message and writes nothing)
LoopRecvAudioLost ==
    /\ wpc = "select"
    /\ audioCh # <<>>
    /\ audioCh' = AfterReceive(audioCh)
    /\ UNCHANGED <<hVars, envVars, wVars, rVars, pVars, muVars, ctxDone, sockVars,
                   histVars>>

\* case msg := <-w.audioCh
LoopRecvAudio ==
    /\ wpc = "select"
    /\ audioCh # <<>>
    /\ whand' = Received(audioCh)
    /\ audioCh' = AfterReceive(audioCh)
    /\ wpc' = "write"
    /\ upWriters' = upWriters \cup {"loop"}
    /\ UNCHANGED <<hVars, envVars, upWriteFailed, rVars, pVars, muVars, ctxDone, sockVars,
                   histVars>>

\* case <-ticker.C
LoopTick ==
    /\ wpc = "select"
    /\ whand' = PingMsg
    /\ wpc' = "write"
    /\ upWriters' = upWriters \cup {"loop"}
    /\ UNCHANGED <<hVars, envVars, upWriteFailed, audioCh, rVars, pVars, muVars, ctxDone,
                   sockVars, histVars>>

Logged(m, ok) == [kind |-> m.kind, id |-> m.id, ok |-> ok]

\* the wire logs keep the data messages; pings carry no data
LogWrite(log, m, ok) == IF m = PingMsg THEN log ELSE Append(log, Logged(m, ok))

\* w.conn.WriteMessage returns nil: next iteration
LoopWriteOK ==
    /\ wpc = "write"
    /\ UpConnOpen
    /\ upWire' = LogWrite(upWire, whand, TRUE)
    /\ whand' = NoMsg
    /\ upWriters' = upWriters \ {"loop"}
    /\ wpc' = "select"
    /\ UNCHANGED <<hVars, envVars, upWriteFailed, audioCh, rVars, pVars, muVars, ctxDone,
                   sockVars, clWire, ctrlCalls, evicted, fullCalls>>

\* w.conn.WriteMessage returns an error (closed socket, broken link, write
\* deadline exceeded): return
LoopWriteFail ==
    /\ wpc = "write"
    /\ upWire' = LogWrite(upWire, whand, FALSE)
    /\ whand' = NoMsg
    /\ upWriters' = upWriters \ {"loop"}
    /\ upWriteFailed' = TRUE
    /\ wpc' = "done"
    /\ UNCHANGED <<hVars, envVars, audioCh, rVars, pVars, muVars, ctxDone, sockVars,
                   clWire, ctrlCalls, evicted, fullCalls>>

\* ---- the upstream receiver goroutine -------------------------------------------
\* openaiConn.ReadMessage returns an error (the upstream peer closed, the link
\* broke, the read deadline passed or the handler closed the socket): cancel()
\* and return.
RecvReadErr ==
    /\ rpc = "read"
    /\ ctxDone' = TRUE
    /\ rpc' = "done"
    /\ UNCHANGED <<hVars, envVars, wVars, audioCh, revt, pVars, muVars, sockVars, histVars>>

\* (variant: an error event is logged and not forwarded)
WritesToClientAudioOnly(k) == k = "delta"

\* (variant: the completion event is passed on to the client as well)
WritesToClientAlsoDone(k) == k \in {"error", "delta", "response.done"}

\* the events after which the receiver writes to the client
WritesToClient(k) == k \in {"error", "delta"}

\* (variant: the PCM is written with the message type of the error text)
ClientFrameText(k) == "text"

\* the frame the receiver writes for an event
ClientFrame(k) == IF k = "error" THEN "text" ELSE "binary"

\* the bytes clientConn.WriteMessage(websocket.BinaryMessage, pcm) puts in front
\* of the PCM payload: none, whatever the request's raw parameter, which the
\* handler never reads
BinaryHeader(raw) == <<>>

\* a client write as the client wire log keeps it
ClientLogged(m, ok) ==
    [kind |-> m.kind, id |-> m.id, ok |-> ok,
     hdr |-> IF m.kind = "binary" THEN BinaryHeader(load.raw) ELSE <<>>]

\* (variant: a message that cannot be decoded is treated like a read error)
RecvReadStrict(k) ==
    /\ rpc = "read"
    /\ UpConnOpen
    /\ nEvents < load.events
    /\ nEvents' = nEvents + 1
    /\ upRead' = Append(upRead, k)
    /\ IF WritesToClient(k)
         THEN /\ revt' = [kind |-> ClientFrame(k), id |-> nEvents']
              /\ rpc' = "lock"
              /\ UNCHANGED ctxDone
         ELSE IF k \in {"non_json", "bad_delta"}
                THEN /\ ctxDone' = TRUE
                     /\ rpc' = "done"
                     /\ UNCHANGED revt
                ELSE UNCHANGED <<rpc, revt, ctxDone>>
    /\ UNCHANGED <<hVars, load, idleVars, nFrames, nCmds, cmdLog, frameLog, wVars, audioCh, pVars, muVars,
                   sockVars, histVars>>

\* openaiConn.ReadMessage returns a message; json.Unmarshal, the switch on its
\* type and the base64 decoding decide whether a client write follows.
RecvRead(k) ==
    /\ rpc = "read"
    /\ UpConnOpen
    /\ nEvents < load.events
    /\ nEvents' = nEvents + 1
    /\ upRead' = Append(upRead, k)
    /\ IF WritesToClient(k)
         THEN /\ revt' = [kind |-> ClientFrame(k), id |-> nEvents']
              /\ rpc' = "lock"
         ELSE UNCHANGED <<rpc, revt>>
    /\ UNCHANGED <<hVars, load, idleVars, nFrames, nCmds, cmdLog, frameLog, wVars, audioCh, pVars, muVars,
                   ctxDone, sockVars, histVars>>

\* clientWriteMu.Lock(), then clientConn.WriteMessage begins
RecvLock ==
    /\ rpc = "lock"
    /\ mu = "none"
    /\ mu' = "recv"
    /\ clWriters' = clWriters \cup {"recv"}
    /\ rpc' = "write"
    /\ UNCHANGED <<hVars, envVars, wVars, audioCh, revt, pVars, ctxDone, sockVars, histVars>>

\* clientConn.WriteMessage returns (the error is dropped or logged), then
\* clientWriteMu.Unlock() and the next iteration
RecvWrite(ok) ==
    /\ rpc = "write"
    /\ ok => ClientConnOpen
    /\ clWire' = Append(clWire, ClientLogged(revt, ok))
    /\ clWriters' = clWriters \ {"recv"}
    /\ mu' = "none"
    /\ revt' = NoMsg
    /\ rpc' = "read"
    /\ UNCHANGED <<hVars, envVars, wVars, audioCh, pVars, ctxDone, sockVars, upWire, ctrlCalls,
                   evicted, fullCalls>>

\* ---- pingLoop ----------------------------------------------------------------
\* case <-ctx.Done(): return
PingCtxDone ==
    /\ ppc = "select"
    /\ ctxDone
    /\ ppc' = "done"
    /\ UNCHANGED <<hVars, envVars, wVars, audioCh, rVars, pingFailed, muVars, ctxDone,
                   sockVars, histVars>>

\* case <-t.C
PingTick ==
    /\ ppc = "select"
    /\ ppc' = "lock"
    /\ UNCHANGED <<hVars, envVars, wVars, audioCh, rVars, pingFailed, muVars, ctxDone,
                   sockVars, histVars>>

\* (variant: pingLoop writes without taking the mutex)
PingLockSkipped ==
    /\ ppc = "lock"
    /\ mu' = "ping"
    /\ clWriters' = clWriters \cup {"ping"}
    /\ ppc' = "write"
    /\ UNCHANGED <<hVars, envVars, wVars, audioCh, rVars, pingFailed, ctxDone, sockVars,
                   histVars>>

\* mu.Lock(), then conn.WriteMessage(PingMessage) begins
PingLock ==
    /\ ppc = "lock"
    /\ mu = "none"
    /\ mu' = "ping"
    /\ clWriters' = clWriters \cup {"ping"}
    /\ ppc' = "write"
    /\ UNCHANGED <<hVars, envVars, wVars, audioCh, rVars, pingFailed, ctxDone, sockVars,
                   histVars>>

\* conn.WriteMessage returns, then mu.Unlock(); an error ends the loop
PingWrite(ok) ==
    /\ ppc = "write"
    /\ ok => ClientConnOpen
    /\ pingFailed' = ~ok
    /\ clWriters' = clWriters \ {"ping"}
    /\ mu' = "none"
    /\ ppc' = IF ok THEN "select" ELSE "done"
    /\ UNCHANGED <<hVars, envVars, wVars, audioCh, rVars, ctxDone, sockVars, histVars>>

\* ---- the session ---------------------------------------------------------------
Next ==
    \/ ClientGone
    \/ ClientDies
    \/ HandlerDialOK
    \/ HandlerDialFail
    \/ HandlerReadErr
    \/ HandlerReadBinary
    \/ \E cmd \in Commands : HandlerReadText(cmd)
    \/ HandlerReturn
    \/ SendAudioTry
    \/ SendAudioEvict
    \/ SendAudioInsert
    \/ LoopCtxDone
    \/ LoopRecvControl
    \/ LoopRecvAudio
    \/ LoopTick
    \/ LoopWriteOK
    \/ LoopWriteFail
    \/ RecvReadErr
    \/ \E k \in UpEventKinds : RecvRead(k)
    \/ RecvLock
    \/ \E ok \in BOOLEAN : RecvWrite(ok)
    \/ PingCtxDone
    \/ PingTick
    \/ PingLock
    \/ \E ok \in BOOLEAN : PingWrite(ok)

Spec == Init /\ [][Next]_vars

\* ---- scheduling ---------------------------------------------------------------
\* The Go scheduler runs every runnable goroutine, a select with a ready case
\* that is chosen at random is not passed over forever, a blocking call on a
\* socket returns, and a mutex is handed to a waiter. What the peers do (send
\* a frame, close, break a link) and the tickers are under no obligation.
HandlerStep ==
    \/ HandlerDialOK
    \/ HandlerDialFail
    \/ HandlerReadErr
    \/ HandlerReturn
    \/ SendAudioTry
    \/ SendAudioEvict
    \/ SendAudioInsert

LoopWriteReturns == LoopWriteOK \/ LoopWriteFail

RecvReadClosed == RecvReadErr /\ ~UpConnOpen

RecvWriteReturns == \E ok \in BOOLEAN : RecvWrite(ok)

PingWriteReturns == \E ok \in BOOLEAN : PingWrite(ok)

Fairness ==
    /\ WF_vars(HandlerStep)
    /\ SF_vars(LoopCtxDone)
    /\ SF_vars(LoopRecvControl)
    /\ SF_vars(LoopRecvAudio)
    /\ WF_vars(LoopWriteReturns)
    /\ WF_vars(RecvReadClosed)
    /\ SF_vars(RecvLock)
    /\ WF_vars(RecvWriteReturns)
    /\ SF_vars(PingCtxDone)
    /\ SF_vars(PingLock)
    /\ WF_vars(PingWriteReturns)

\* a step the session takes by itself: anything but an act of a peer
Runs ==
    \/ HandlerStep
    \/ LoopCtxDone
    \/ LoopRecvControl
    \/ LoopRecvAudio
    \/ LoopTick
    \/ LoopWriteReturns
    \/ RecvReadClosed
    \/ RecvLock
    \/ RecvWriteReturns
    \/ PingCtxDone
    \/ PingTick
    \/ PingLock
    \/ PingWriteReturns

\* nothing moves any more unless a peer acts
AtRest == ~ENABLED Runs

LiveSpec == LiveInit /\ [][Next]_vars /\ Fairness

\* ---- the idle-commit variant of the handler (src/unnamed/part_002) ---------------
\* It has no writer goroutine: the read loop and the idle goroutine both call
\* sendJSON on the upstream connection, and they share bytesSinceCommit without
\* a lock. Every read and every write of the counter is a step of its own.
IdleCommands == {"commit", "clear", "cancel", "other"}

IdleEventKinds == {"append", "commit", "create", "clear", "cancel"}

\* the state of the relay of main.go, which the variant does not have
mainVars ==
    <<hVars, load, nFrames, nCmds, nEvents, upRead, cmdLog, frameLog,
      wVars, audioCh, rVars, pVars, muVars, ctxDone, sockVars, histVars>>

IdleInit ==
    /\ load = [frames |-> 0, cmds |-> 0, events |-> 0, raw |-> 1]
    /\ Started

\* sendJSON: one text message written on the upstream connection
sendJSON(kind, n) == idleWire' = Append(idleWire, [kind |-> kind, n |-> n])

\* resetIdle: Stop, drain the channel, Reset
resetIdle == idleTimer' = "armed"

\* clientConn.ReadMessage returns an error: cancel() and return
IdleReadErr ==
    /\ ihpc = "read"
    /\ ihpc' = "done"
    /\ idleCtxDone' = TRUE
    /\ UNCHANGED <<mainVars, ihlen, ihtmp, ipc, bytesSinceCommit, idleTimer,
                   idleWire, nIdleIn>>

\* a binary frame of n bytes is read
IdleReadBinary(n) ==
    /\ ihpc = "read"
    /\ nIdleIn < MaxIdleInputs
    /\ nIdleIn' = nIdleIn + 1
    /\ ihlen' = n
    /\ ihpc' = "append"
    /\ UNCHANGED <<mainVars, ihtmp, ipc, bytesSinceCommit, idleTimer,
                   idleCtxDone, idleWire>>

\* sendJSON(input_audio_buffer.append)
IdleSendAppend ==
    /\ ihpc = "append"
    /\ sendJSON("append", ihlen)
    /\ ihpc' = "addLoad"
    /\ UNCHANGED <<mainVars, ihlen, ihtmp, ipc, bytesSinceCommit, idleTimer,
                   idleCtxDone, nIdleIn>>

\* bytesSinceCommit += len(data): the read
IdleAddLoad ==
    /\ ihpc = "addLoad"
    /\ ihtmp' = bytesSinceCommit
    /\ ihpc' = "addStore"
    /\ UNCHANGED <<mainVars, ihlen, ipc, bytesSinceCommit, idleTimer,
                   idleCtxDone, idleWire, nIdleIn>>

\* bytesSinceCommit += len(data): the write
IdleAddStore ==
    /\ ihpc = "addStore"
    /\ bytesSinceCommit' = ihtmp + ihlen
    /\ ihpc' = "reset"
    /\ UNCHANGED <<mainVars, ihlen, ihtmp, ipc, idleTimer, idleCtxDone,
                   idleWire, nIdleIn>>

\* resetIdle() after the frame
IdleResetIdle ==
    /\ ihpc = "reset"
    /\ resetIdle
    /\ ihpc' = "read"
    /\ UNCHANGED <<mainVars, ihlen, ihtmp, ipc, bytesSinceCommit, idleCtxDone,
                   idleWire, nIdleIn>>

\* a text frame is read; an unknown command is logged
IdleReadText(cmd) ==
    /\ ihpc = "read"
    /\ nIdleIn < MaxIdleInputs
    /\ nIdleIn' = nIdleIn + 1
    /\ ihpc' = CASE cmd = "commit" -> "cmdCheck"
                 [] cmd = "clear"  -> "cmdClear"
                 [] cmd = "cancel" -> "cmdCancel"
                 [] OTHER          -> "read"
    /\ UNCHANGED <<mainVars, ihlen, ihtmp, ipc, bytesSinceCommit, idleTimer,
                   idleCtxDone, idleWire>>

\* "commit": if bytesSinceCommit > 0
IdleCmdCheck ==
    /\ ihpc = "cmdCheck"
    /\ ihpc' = IF bytesSinceCommit > 0 THEN "cmdCommit" ELSE "read"
    /\ UNCHANGED <<mainVars, ihlen, ihtmp, ipc, bytesSinceCommit, idleTimer,
                   idleCtxDone, idleWire, nIdleIn>>

\* "commit": sendJSON(input_audio_buffer.commit)
IdleCmdCommit ==
    /\ ihpc = "cmdCommit"
    /\ sendJSON("commit", 0)
    /\ ihpc' = "cmdCreate"
    /\ UNCHANGED <<mainVars, ihlen, ihtmp, ipc, bytesSinceCommit, idleTimer,
                   idleCtxDone, nIdleIn>>

\* "commit": sendJSON(response.create)
IdleCmdCreate ==
    /\ ihpc = "cmdCreate"
    /\ sendJSON("create", 0)
    /\ ihpc' = "cmdZero"
    /\ UNCHANGED <<mainVars, ihlen, ihtmp, ipc, bytesSinceCommit, idleTimer,
                   idleCtxDone, nIdleIn>>

\* "commit": bytesSinceCommit = 0
IdleCmdZero ==
    /\ ihpc = "cmdZero"
    /\ bytesSinceCommit' = 0
    /\ ihpc' = "read"
    /\ UNCHANGED <<mainVars, ihlen, ihtmp, ipc, idleTimer, idleCtxDone,
                   idleWire, nIdleIn>>

\* "clear": sendJSON(input_audio_buffer.clear)
IdleCmdClear ==
    /\ ihpc = "cmdClear"
    /\ sendJSON("clear", 0)
    /\ ihpc' = "clearZero"
    /\ UNCHANGED <<mainVars, ihlen, ihtmp, ipc, bytesSinceCommit, idleTimer,
                   idleCtxDone, nIdleIn>>

\* "clear": bytesSinceCommit = 0
IdleCmdClearZero ==
    /\ ihpc = "clearZero"
    /\ bytesSinceCommit' = 0
    /\ ihpc' = "read"
    /\ UNCHANGED <<mainVars, ihlen, ihtmp, ipc, idleTimer, idleCtxDone,
                   idleWire, nIdleIn>>

\* "cancel": sendJSON(response.cancel)
IdleCmdCancel ==
    /\ ihpc = "cmdCancel"
    /\ sendJSON("cancel", 0)
    /\ ihpc' = "read"
    /\ UNCHANGED <<mainVars, ihlen, ihtmp, ipc, bytesSinceCommit, idleTimer,
                   idleCtxDone, nIdleIn>>

\* idleCommitAfter has passed since the last Reset: a value enters idleTimer.C
IdleTimerFires ==
    /\ idleTimer = "armed"
    /\ idleTimer' = "fired"
    /\ UNCHANGED <<mainVars, ihpc, ihlen, ihtmp, ipc, bytesSinceCommit,
                   idleCtxDone, idleWire, nIdleIn>>

\* the receiver goroutine's openaiConn.ReadMessage fails: cancel()
IdleRecvReadErr ==
    /\ ~idleCtxDone
    /\ idleCtxDone' = TRUE
    /\ UNCHANGED <<mainVars, ihpc, ihlen, ihtmp, ipc, bytesSinceCommit,
                   idleTimer, idleWire, nIdleIn>>

\* idle goroutine, case <-ctx.Done(): return
IdleLoopCtxDone ==
    /\ ipc = "select"
    /\ idleCtxDone
    /\ ipc' = "done"
    /\ UNCHANGED <<mainVars, ihpc, ihlen, ihtmp, bytesSinceCommit, idleTimer,
                   idleCtxDone, idleWire, nIdleIn>>

\* idle goroutine, case <-idleTimer.C
IdleLoopTimer ==
    /\ ipc = "select"
    /\ idleTimer = "fired"
    /\ idleTimer' = "stopped"
    /\ ipc' = "check"
    /\ UNCHANGED <<mainVars, ihpc, ihlen, ihtmp, bytesSinceCommit, idleCtxDone,
                   idleWire, nIdleIn>>

\* idle goroutine: if bytesSinceCommit > 0
IdleLoopCheck ==
    /\ ipc = "check"
    /\ ipc' = IF bytesSinceCommit > 0 THEN "commit" ELSE "select"
    /\ UNCHANGED <<mainVars, ihpc, ihlen, ihtmp, bytesSinceCommit, idleTimer,
                   idleCtxDone, idleWire, nIdleIn>>

\* idle goroutine: sendJSON(input_audio_buffer.commit)
IdleLoopCommit ==
    /\ ipc = "commit"
    /\ sendJSON("commit", 0)
    /\ ipc' = "create"
    /\ UNCHANGED <<mainVars, ihpc, ihlen, ihtmp, bytesSinceCommit, idleTimer,
                   idleCtxDone, nIdleIn>>

\* idle goroutine: sendJSON(response.create)
IdleLoopCreate ==
    /\ ipc = "create"
    /\ sendJSON("create", 0)
    /\ ipc' = "zero"
    /\ UNCHANGED <<mainVars, ihpc, ihlen, ihtmp, bytesSinceCommit, idleTimer,
                   idleCtxDone, nIdleIn>>

\* idle goroutine: bytesSinceCommit = 0
IdleLoopZero ==
    /\ ipc = "zero"
    /\ bytesSinceCommit' = 0
    /\ ipc' = "select"
    /\ UNCHANGED <<mainVars, ihpc, ihlen, ihtmp, idleTimer, idleCtxDone,
                   idleWire, nIdleIn>>

IdleNext ==
    \/ IdleReadErr
    \/ \E n \in 0..MaxFrameBytes : IdleReadBinary(n)
    \/ IdleSendAppend
    \/ IdleAddLoad
    \/ IdleAddStore
    \/ IdleResetIdle
    \/ \E cmd \in IdleCommands : IdleReadText(cmd)
    \/ IdleCmdCheck
    \/ IdleCmdCommit
    \/ IdleCmdCreate
    \/ IdleCmdZero
    \/ IdleCmdClear
    \/ IdleCmdClearZero
    \/ IdleCmdCancel
    \/ IdleTimerFires
    \/ IdleRecvReadErr
    \/ IdleLoopCtxDone
    \/ IdleLoopTimer
    \/ IdleLoopCheck
    \/ IdleLoopCommit
    \/ IdleLoopCreate
    \/ IdleLoopZero

IdleSpec == IdleInit /\ [][IdleNext]_vars

\* ---- what the logs say ----------------------------------------------------------
IsControl(e) == e.kind \in ControlKinds

IsAppend(e) == e.kind = AppendKind

Plain(log) == [k \in 1..Len(log) |-> [kind |-> log[k].kind, id |-> log[k].id]]

AllOk(log) == \A k \in 1..Len(log) : log[k].ok

Ids(q) == {q[k].id : k \in 1..Len(q)}

Count(b) == IF b THEN 1 ELSE 0

FrameIds == 1..(MaxFrames + MaxCmds)

Queued(i) == i \in Ids(audioCh)

Evicted(i) == i \in Ids(evicted)

AppendWritten(i) ==
    \E k \in 1..Len(upWire) : IsAppend(upWire[k]) /\ upWire[k].id = i

\* the ids of the append events on the upstream wire, in wire order
AppendIds ==
    [k \in 1..Len(SelectSeq(upWire, IsAppend)) |-> SelectSeq(upWire, IsAppend)[k].id]

Increasing(ids) == \A k \in 1..(Len(ids) - 1) : ids[k] < ids[k + 1]

ControlPending == hpc = "sendControl"

AudioPending == audioCh # <<>>

\* ---- C1 ---------------------------------------------------------------------------
\* C1: in every reachable state at most one task is inside a WriteMessage on the
\* client socket, and on the upstream socket only WSWriter.loop ever is.
SingleWriter ==
    /\ Cardinality(clWriters) <= 1
    /\ upWriters \subseteq {"loop"}

\* the receiver is writing to the client while pingLoop waits for the mutex and
\* WSWriter.loop writes upstream
SingleWriterWitness ==
    /\ clWriters = {"recv"}
    /\ ppc = "lock"
    /\ upWriters = {"loop"}

\* ---- C2 ---------------------------------------------------------------------------
\* the control messages WSWriter.loop has passed to WriteMessage, in order
CtrlWritten ==
    Plain(SelectSeq(upWire, IsControl)) \o (IF IsControl(whand) THEN <<whand>> ELSE <<>>)

\* the control messages whose SendControl call has returned, in call order
CtrlAccepted ==
    IF ControlPending THEN SubSeq(ctrlCalls, 1, Len(ctrlCalls) - 1) ELSE ctrlCalls

\* C2: whatever the audio load and the evictions, the control messages that
\* WSWriter.loop passes to WriteMessage are exactly the messages whose SendControl
\* call has returned, each once, in the order of the calls.
ControlNeverDropped == CtrlWritten = CtrlAccepted

\* a command sent after an eviction is on the wire behind the session.update
ControlNeverDroppedWitness ==
    /\ evicted # <<>>
    /\ Len(ctrlCalls) = 2
    /\ ctrlCalls[2].id > evicted[1].id
    /\ Plain(SelectSeq(upWire, IsControl)) = ctrlCalls
    /\ AllOk(upWire)

StrictPriority ==
    [][(wpc = "select" /\ wpc' = "write") =>
          /\ ControlPending => IsControl(whand')
          /\ (whand' = PingMsg) => ~AudioPending]_vars

\* ---- C5 ---------------------------------------------------------------------------
\* C5 as stated: the append events on the wire are in the order of the frames,
\* none twice, and every frame that enters the lane is eventually written unless
\* it is evicted or a write fails.
FramesReachWire ==
    /\ []Increasing(AppendIds)
    /\ \A i \in FrameIds : Queued(i) ~> (AppendWritten(i) \/ Evicted(i) \/ upWriteFailed)

\* C5 (amended): the append events on the wire are in the order of the frames,
\* none twice, and every frame that enters the lane is eventually written unless
\* it is evicted, a write fails, or the session is cancelled first.
FramesReachWireUnlessCancelled ==
    /\ []Increasing(AppendIds)
    /\ \A i \in FrameIds :
          Queued(i) ~> (AppendWritten(i) \/ Evicted(i) \/ upWriteFailed \/ ctxDone)

\* every frame of a full load is on the wire, nothing evicted, failed or cancelled
FramesReachWireWitness ==
    /\ Len(AppendIds) = MaxFrames
    /\ evicted = <<>>
    /\ AllOk(upWire)
    /\ ~ctxDone

\* ---- C6 ---------------------------------------------------------------------------
\* a frame that has been read, wherever it is now
FrameRead(i) ==
    \/ Queued(i)
    \/ Evicted(i)
    \/ AppendWritten(i)
    \/ (IsAppend(whand) /\ whand.id = i)
    \/ (IsAppend(hmsg) /\ hmsg.id = i)

CancelAt(q) == upWire[q].kind = "response.cancel" /\ upWire[q].id = 4

\* C6 as stated: three binary frames, then cancel: where the response.cancel is on
\* the wire, the three appends are before it and the append of every later
\* frame is behind it.
CancelAfterThreeFrames ==
    \A q \in 1..Len(upWire) :
        (CancelAt(q) /\ \A i \in 1..3 : FrameRead(i)) =>
            /\ \A i \in 1..3 : \E r \in 1..(q - 1) : IsAppend(upWire[r]) /\ upWire[r].id = i
            /\ \A r \in 1..Len(upWire) :
                  (IsAppend(upWire[r]) /\ upWire[r].id > 4) => q < r

\* C6 (amended): the response.cancel, like every control message, is passed to
\* WriteMessage before the append of any frame the client sends after it; the
\* appends of the frames sent before it may come before or behind it.
ControlBeforeLaterFrames ==
    \A r \in 1..Len(upWire) : \A c \in 1..Len(ctrlCalls) :
        (IsAppend(upWire[r]) /\ ctrlCalls[c].id < upWire[r].id) =>
            \E q \in 1..(r - 1) : Plain(upWire)[q] = ctrlCalls[c]

\* three frames, then cancel, then a frame: the cancel overtakes an earlier
\* frame and is ahead of the later one
ControlBeforeLaterFramesWitness ==
    \E q, r, t \in 1..Len(upWire) :
        /\ q < r /\ r < t
        /\ CancelAt(q)
        /\ IsAppend(upWire[r]) /\ upWire[r].id < 4
        /\ IsAppend(upWire[t]) /\ upWire[t].id = 5
        /\ \A i \in 1..3 : FrameRead(i)

\* ---- C7 ---------------------------------------------------------------------------
TasksDone ==
    /\ wpc \in {"idle", "done"}
    /\ rpc \in {"idle", "done"}
    /\ ppc = "done"

\* C7: once the upstream read has failed, the session does not come to rest
\* before it is torn down: with no further act of the client the context is
\* cancelled, the handler's read loop exits, the client socket is closed and
\* every task ends.
UpstreamFailureTearsDown ==
    (rpc = "done" /\ AtRest) => (ctxDone /\ hpc = "done" /\ clCloses = 1 /\ TasksDone)

\* ---- C8 ---------------------------------------------------------------------------
\* C8: once the client is gone while the upstream socket is open, the session
\* does not come to rest before the upstream socket is closed and every task has
\* ended.
ClientCloseTearsDown ==
    (clientPeer = "gone" /\ upDialed /\ AtRest) => (upCloses = 1 /\ hpc = "done" /\ TasksDone)

\* ---- C9 ---------------------------------------------------------------------------
RelayWriteFailed ==
    \E k \in 1..Len(clWire) : clWire[k].kind = "binary" /\ ~clWire[k].ok

\* C9: a task that has seen a write fail has signalled the context: WSWriter.loop
\* and pingLoop before they return, the receiver before its next read.
WriteFailureCancels ==
    /\ (wpc = "done" /\ upWriteFailed) => ctxDone
    /\ (ppc = "done" /\ pingFailed) => ctxDone
    /\ (RelayWriteFailed /\ rpc = "read") => ctxDone

\* ---- C10 --------------------------------------------------------------------------
\* C10: no socket is closed twice, and a cancelled session does not come to rest
\* before both of its sockets are closed.
SocketsClosedOnce ==
    /\ clCloses <= 1
    /\ upCloses <= 1
    /\ (ctxDone /\ upDialed /\ AtRest) => (clCloses = 1 /\ upCloses = 1)

\* ---- C11 --------------------------------------------------------------------------
Malformed(k) == k \in {"non_json", "bad_delta"}

Last(q) == q[Len(q)]

\* C11: the step in which the receiver reads a message that is not JSON, or a
\* delta that is not base64, changes nothing but the count of messages read: no
\* client write is started, the context is not cancelled, and the receiver is
\* back at its read as it was before; no client frame is ever made from such
\* a message.
MalformedIgnored ==
    /\ [](\A i \in 1..Len(upRead) :
             Malformed(upRead[i]) =>
                 /\ revt.id # i
                 /\ \A k \in 1..Len(clWire) : clWire[k].id # i)
    /\ [][(upRead' # upRead /\ Malformed(Last(upRead'))) =>
             /\ rpc' = "read"
             /\ UNCHANGED <<revt, mu, clWriters, clWire, ctxDone, sockVars, hVars, wVars,
                            audioCh, pVars>>]_vars

\* a delta that is not base64 was read, the session went on, and the delta
\* that came after it was relayed
MalformedIgnoredWitness ==
    /\ upRead = <<"bad_delta", "delta">>
    /\ clWire = <<[kind |-> "binary", id |-> 2, ok |-> TRUE, hdr |-> <<>>]>>
    /\ ~ctxDone

\* ---- C12 --------------------------------------------------------------------------
\* the client writes made, or being made, for the i-th upstream message
WritesFor(i, kind) ==
    Cardinality({k \in 1..Len(clWire) : clWire[k].kind = kind /\ clWire[k].id = i})
        + Count(revt.kind = kind /\ revt.id = i)

\* C12: for every error event read from the upstream socket the receiver makes
\* exactly one text write to the client (made, or in hand), a text write is
\* made for nothing else, and neither reading the event nor writing the text
\* cancels the context.
ErrorForwarded ==
    /\ [](\A i \in 1..MaxUpEvents :
             WritesFor(i, "text") = Count(i <= Len(upRead) /\ upRead[i] = "error"))
    /\ [][((upRead' # upRead /\ Last(upRead') = "error")
              \/ (revt.kind = "text" /\ revt' # revt)) => ctxDone' = ctxDone]_vars

\* two error events were read and each is one text message on the client wire
ErrorForwardedWitness ==
    /\ upRead = <<"error", "error">>
    /\ Plain(clWire) = <<[kind |-> "text", id |-> 1], [kind |-> "text", id |-> 2]>>
    /\ AllOk(clWire)
    /\ ~ctxDone

\* ---- C14 --------------------------------------------------------------------------
\* C14: when a speech-started event has been read, every audio delta read after
\* it is relayed to the client only behind an interruption notice (a text
\* message of type playback.interrupt) made for that event.
InterruptBeforeLaterAudio ==
    \A p \in 1..Len(upRead) : \A r \in 1..Len(clWire) :
        (upRead[p] = "speech_started" /\ clWire[r].kind = "binary" /\ p < clWire[r].id) =>
            \E t \in 1..(r - 1) : clWire[t].kind = "playback.interrupt" /\ clWire[t].id = p

\* ---- C15 --------------------------------------------------------------------------
\* C15: a binary message written to the client starts with the tag 1 and the
\* 8 bytes of the generation when the request had raw=0, and has nothing in
\* front of the PCM payload when it had raw=1.
BinaryFormatFollowsMode ==
    \A r \in 1..Len(clWire) :
        clWire[r].kind = "binary" =>
            IF load.raw = 0
              THEN Len(clWire[r].hdr) = 9 /\ clWire[r].hdr[1] = 1
              ELSE clWire[r].hdr = <<>>

\* ---- C16 --------------------------------------------------------------------------
\* C16: once the client has stopped answering (no pong, no frame, no close), the
\* handler eventually gives the link up: the context is cancelled and the
\* handler has returned.
DeadPeerTornDown == (clientPeer = "dead") ~> (ctxDone /\ hpc = "done")

\* ---- C17 --------------------------------------------------------------------------
\* the mapping the claim states
Translation(cmd) ==
    IF cmd = "cancel" THEN "response.cancel"
    ELSE IF cmd = "clear" THEN "input_audio_buffer.clear"
    ELSE IF cmd = "force" THEN "response.create"
    ELSE "ignored"

Translated(cmd) == Translation(cmd) # "ignored"

FromCommand(m) == m.kind # "session.update"

\* C17: the SendControl calls made for client text frames are, in order, one
\* call per cancel, clear or force read, with the event the mapping gives; the
\* step that reads any other text makes no call, leaves both lanes, the writer
\* and the upstream wire as they were and does not cancel the context.
TextMapping ==
    /\ [](LET calls == SelectSeq(ctrlCalls, FromCommand)
              cmds == SelectSeq(cmdLog, Translated)
          IN /\ Len(calls) = Len(cmds)
             /\ \A i \in 1..Len(calls) : calls[i].kind = Translation(cmds[i]))
    /\ [][(cmdLog' # cmdLog /\ ~Translated(Last(cmdLog'))) =>
             UNCHANGED <<hVars, ctrlCalls, audioCh, wVars, upWire, ctxDone, sockVars>>]_vars

\* cancel was read and its response.cancel is on the upstream wire
TextMappingWitness ==
    /\ cmdLog = <<"cancel">>
    /\ \E q \in 1..Len(upWire) : upWire[q].kind = "response.cancel" /\ upWire[q].ok
    /\ Len(ctrlCalls) = 2

\* ---- C18 --------------------------------------------------------------------------
DialFailed == ~upDialed /\ hpc \in {"return", "done"}

\* C18: after a failed dial no writer loop and no receiver is running, nothing
\* has been passed to SendControl or written upstream, the handler does not go
\* back to the dial, and eventually the client socket is closed and pingLoop
\* has returned.
DialFailureEndsSession ==
    /\ [](DialFailed =>
             /\ wpc = "idle" /\ rpc = "idle"
             /\ upWriters = {} /\ upWire = <<>> /\ ctrlCalls = <<>> /\ audioCh = <<>>
             /\ upCloses = 0)
    /\ [][DialFailed => DialFailed']_vars
    /\ DialFailed ~> (clCloses = 1 /\ ppc = "done")

\* the dial failed, the handler returned and pingLoop left on ctx.Done
DialFailureEndsSessionWitness ==
    /\ DialFailed
    /\ hpc = "done"
    /\ clCloses = 1
    /\ ppc = "done"
    /\ ~pingFailed

\* ---- C19 --------------------------------------------------------------------------
IsData(m) == m # NoMsg /\ m # PingMsg

\* C19: the first data message WSWriter.loop passes to WriteMessage on the
\* upstream socket is the session.update: no append and no event made from a
\* client command is written, or in the writer's hand, before it.
SessionUpdateFirst ==
    /\ upWire # <<>> => upWire[1].kind = "session.update"
    /\ (upWire = <<>> /\ IsData(whand)) => whand.kind = "session.update"

\* the session.update, then a command's event and an append were written
SessionUpdateFirstWitness ==
    /\ Len(upWire) >= 3
    /\ upWire[1] = [kind |-> "session.update", id |-> 0, ok |-> TRUE]
    /\ \E q \in 2..Len(upWire) : IsAppend(upWire[q])
    /\ \E q \in 2..Len(upWire) : IsControl(upWire[q])

\* ---- C20 --------------------------------------------------------------------------
IsBinary(e) == e.kind = "binary"

\* C20: for every audio delta with a valid payload read from the upstream
\* socket the receiver makes exactly one binary write to the client (made, or in
\* hand), a binary write is made for nothing else, and the binary writes are
\* in the order in which the deltas were read.
AudioRelayedInOrder ==
    /\ \A i \in 1..MaxUpEvents :
          WritesFor(i, "binary") = Count(i <= Len(upRead) /\ upRead[i] = "delta")
    /\ Increasing([k \in 1..Len(SelectSeq(clWire, IsBinary)) |->
                      SelectSeq(clWire, IsBinary)[k].id])
    /\ \A k \in 1..Len(clWire) : IsBinary(revt) => clWire[k].id < revt.id

\* two deltas were read and relayed, the first one first
AudioRelayedInOrderWitness ==
    /\ upRead = <<"delta", "delta">>
    /\ Plain(clWire) = <<[kind |-> "binary", id |-> 1], [kind |-> "binary", id |-> 2]>>
    /\ AllOk(clWire)

\* ---- C21 --------------------------------------------------------------------------
\* a completion event, or an event of a type the receiver has no case for
Informational(k) == k \in {"response.done", "speech_started", "other"}

\* C21: the step in which the receiver reads a response.done or an event of an
\* unknown type changes nothing but the record of messages read: no write is
\* started on either socket, nothing enters a lane, the context is not
\* cancelled; and no client frame is ever made from such an event.
InformationalNoEffect ==
    /\ [](\A i \in 1..Len(upRead) :
             Informational(upRead[i]) =>
                 /\ revt.id # i
                 /\ \A k \in 1..Len(clWire) : clWire[k].id # i)
    /\ [][(upRead' # upRead /\ Informational(Last(upRead'))) =>
             UNCHANGED <<rVars, muVars, wVars, hVars, pVars, audioCh, ctxDone, sockVars,
                         histVars>>]_vars

\* a response.done and an unknown event were read and the session is as it was
InformationalNoEffectWitness ==
    /\ upRead = <<"response.done", "other">>
    /\ clWire = <<>>
    /\ rpc = "read"
    /\ ~ctxDone
    /\ AllOk(upWire) /\ Len(upWire) = 1

\* ---- C22 --------------------------------------------------------------------------
InSendAudio == hpc \in {"sendAudio", "evict", "insert"}

\* C22: a SendAudio call returns: the session never comes to rest with the
\* handler inside SendAudio.
SendAudioReturns == AtRest => ~InSendAudio

\* ---- C23 --------------------------------------------------------------------------
\* C23: a SendControl call returns: the session never comes to rest with the
\* handler inside SendControl.
SendControlReturns == AtRest => ~ControlPending

\* ---- C24 --------------------------------------------------------------------------
\* where a frame is in the order of the client's binary frames
Pos(id) == CHOOSE j \in 1..Len(frameLog) : frameLog[j] = id

\* C24: the ids of the append events on the upstream wire, followed by the one
\* in the writer's hand, are ids of binary frames the client sent, each at most
\* once and in the order in which the frames were read.
AppendsAreSubsequence ==
    LET ids == AppendIds \o (IF IsAppend(whand) THEN <<whand.id>> ELSE <<>>)
    IN /\ \A k \in 1..Len(ids) : \E j \in 1..Len(frameLog) : frameLog[j] = ids[k]
       /\ \A k \in 1..(Len(ids) - 1) : Pos(ids[k]) < Pos(ids[k + 1])

\* all the frames of a full load were read, one was evicted and the others are
\* on the wire, after a text frame that took an id of its own
AppendsAreSubsequenceWitness ==
    /\ Len(frameLog) = MaxFrames
    /\ Len(evicted) = 1
    /\ Len(AppendIds) = MaxFrames - 1
    /\ cmdLog # <<>>
    /\ AllOk(upWire)

\* ---- C25 --------------------------------------------------------------------------
\* the upstream audio buffer holds bytes before the q-th event of the variant's
\* wire: an append of at least one byte precedes it, with no commit and no clear
\* in between
BufferedBefore(q) ==
    \E p \in 1..(q - 1) :
        /\ idleWire[p].kind = "append"
        /\ idleWire[p].n > 0
        /\ \A r \in (p + 1)..(q - 1) : idleWire[r].kind \notin {"commit", "clear"}

\* C25: in the idle-commit variant every input_audio_buffer.commit on the
\* upstream wire comes after an append of at least one byte that no earlier
\* commit or clear has followed.
CommitOnlyAfterAudio ==
    \A q \in 1..Len(idleWire) : idleWire[q].kind = "commit" => BufferedBefore(q)

====
